---- MODULE Spec2Model ----
(***************************************************************************)
(* Model of proxy/proxy/dial.go: the process-wide credential -> *Client    *)
(* registry (dialClient) and the Dial / Init / InitClient / InitDefault /  *)
(* InitFromJson entry points, called concurrently by several goroutines.   *)
(***************************************************************************)
EXTENDS Integers, Sequences, FiniteSets, TLC

\* ---------------------------------------------------------------- bounds
NumProcs == 2            \* concurrent goroutines calling the package
MaxCalls == 2            \* top-level calls made in one behaviour

\* ------------------------------------------------------------- constants
port == 3307

Procs == 1..NumProcs

\* credential_json values: the empty blob, a well-formed service-account
\* blob and a malformed one
Credentials == {"", "k1", "bad"}
ValidBlobs == {"k1"}
Instances == {"p:r:i1", "p:r:i2"}

Nil == 0                 \* the nil *Client
NoConn == <<>>           \* a nil net.Conn
NoErr == <<>>            \* a nil error
NoLock == 0              \* the mutex is free

Scope == "https://www.googleapis.com/auth/sqlservice.admin"

VARIABLES
  c,        \* dialClient.c: [alloc |-> map is non-nil, ent |-> key :> pointer]
  lock,     \* dialClient.Mutex: NoLock or the goroutine holding it
  heap,     \* the Client objects allocated so far; a *Client is an index
  pc,       \* per goroutine: position in the code
  op,       \* per goroutine: the entry point it called
  key,      \* per goroutine: its credential_json argument
  inst,     \* per goroutine: Dial's instance argument
  arg,      \* per goroutine: the auth transport (Init) or Client (InitClient)
  cl,       \* per goroutine: Dial's local variable c
  ret,      \* per goroutine: what its last call returned
  trace,    \* per goroutine: what the current/last call did, in order
  ikey,     \* per goroutine: Init's credential_json parameter
  last,     \* per key: the pointer most recently stored under it
  failed,   \* the credentials whose identity exchange has failed so far
  ops,      \* the calls started so far, as <<entry point, credential>>
  calls     \* number of calls started so far

vars == <<c, lock, heap, pc, op, key, inst, arg, cl, ret, trace, ikey, last,
          failed, ops, calls>>

\* ------------------------------------------------------- the map and mutex

\* a nil map[string]*Client
NilMap == [alloc |-> FALSE, ent |-> <<>>]

\* make(map[string]*Client)
MakeMap == [alloc |-> TRUE, ent |-> <<>>]

\* mutant: the map is made anew on every call, dropping what was installed
MakeIfNil_always(m) == MakeMap

\* if dialClient.c == nil { dialClient.c = make(...) }
MakeIfNil(m) == IF m.alloc THEN m ELSE MakeMap

\* m[k] as an rvalue: the zero value (nil) when k is absent or m is nil
Lookup(m, k) == IF k \in DOMAIN m.ent THEN m.ent[k] ELSE Nil

\* mutant: reading an absent key leaves a nil entry behind
AfterRead_inserts(m, k) == IF k \in DOMAIN m.ent THEN m
                           ELSE [m EXCEPT !.ent = [x \in (DOMAIN m.ent) \cup {k} |->
                                                     IF x = k THEN Nil ELSE m.ent[x]]]

\* the map after c := m[k]: reading a Go map never inserts
AfterRead(m, k) == m

\* mutant: an existing entry is kept, the first writer wins
Store_keepfirst(m, k, ptr) ==
  IF k \in DOMAIN m.ent THEN m
  ELSE [m EXCEPT !.ent = [x \in (DOMAIN m.ent) \cup {k} |->
                            IF x = k THEN ptr ELSE m.ent[x]]]

\* mutant: the store drops the entries of the other credentials
Store_only(m, k, ptr) == [m EXCEPT !.ent = [x \in {k} |-> ptr]]

\* m[k] = ptr on a non-nil map
Store(m, k, ptr) ==
  [m EXCEPT !.ent = [x \in (DOMAIN m.ent) \cup {k} |->
                       IF x = k THEN ptr ELSE m.ent[x]]]

\* mutant: Lock takes the mutex without waiting for it to be free
Lock_nowait(p) == lock' = p

\* dialClient.Lock(): blocks until the mutex is free
Lock(p) == lock = NoLock /\ lock' = p

\* mutant: the Unlock is forgotten
Unlock_forgotten(p) == lock' = lock

\* dialClient.Unlock()
Unlock(p) == lock' = NoLock

\* ------------------------------------------------------------ collaborators

\* google.JWTConfigFromJSON([]byte(blob), scope) followed by cfg.Client(ctx):
\* a pure parse of the blob, which the empty blob never passes
JWTConfigFromJSON(blob) ==
  IF blob \in ValidBlobs
  THEN [err |-> NoErr, client |-> <<"jwt", blob, Scope>>]
  ELSE [err |-> <<"json", blob>>, client |-> <<>>]

\* google.DefaultClient(ctx, scope): depends on the environment
DefaultClient(ok) ==
  IF ok THEN [err |-> NoErr, client |-> <<"adc", Scope>>]
        ELSE [err |-> <<"adc">>, client |-> <<>>]

\* certs.NewCertSource(host, auth, checkRegion)
NewCertSource(host, auth, checkRegion) ==
  [host |-> host, auth |-> auth, checkRegion |-> checkRegion]

\* &Client{Port: port, Certs: NewCertSource(...), Conns: connset, Dialer: dialer}
NewClient(auth, connset, dialer) ==
  [Port |-> port,
   Certs |-> NewCertSource("https://www.googleapis.com/sql/v1beta4/", auth, TRUE),
   Conns |-> connset, Dialer |-> dialer]

\* mutant: the new Client also overwrites the one allocated before it
Alloc_clobber(h, client) ==
  IF h = <<>> THEN <<client>>
  ELSE Append([h EXCEPT ![Len(h)] = client], client)

\* &Client{...} and &c: a fresh object, whose address is its index
Alloc(h, client) == Append(h, client)

\* the Client a caller hands to InitClient
CustomClient ==
  [Port |-> 5432, Certs |-> NewCertSource("custom", <<"custom">>, FALSE),
   Conns |-> "cs", Dialer |-> "dl"]

\* (*Client).Dial(instance): a connection made by that client, or its error
ClientDial(ptr, instance, ok) ==
  IF ok THEN [conn |-> <<"conn", ptr, instance>>, err |-> NoErr]
        ELSE [conn |-> NoConn, err |-> <<"dial", ptr, instance>>]

\* mutant: the initialisation error is returned as it is
Errorf_unwrapped(err) == err

\* fmt.Errorf("default proxy initialization failed; ...: %v", err)
Errorf(err) == <<"default proxy initialization failed">> \o err

\* mutant: a delegated-dial error is wrapped like an initialisation error
DialReturn_wrapped(r) ==
  [r EXCEPT !.err = IF r.err = NoErr THEN NoErr ELSE Errorf(r.err)]

\* return c.Dial(instance): the delegated result goes back as it is
DialReturn(r) == r

\* mutant: the parse error is ignored and Init runs anyway
ParseFailed_ignored(r) == FALSE

\* if err != nil { return err } in InitFromJson
ParseFailed(r) == r.err # NoErr

\* mutant: InitFromJson installs under the empty key, as InitDefault does
InitFromJsonKey_empty(k) == ""

\* Init(client, nil, nil, credential_json): the key InitFromJson installs under
InitFromJsonKey(k) == k

\* mutant: Dial skips the initialisation and goes to its second lookup
ImplicitInit_skipped(k) == "D_lock2"

\* the initialisation Dial runs on a miss: InitFromJson, whatever the credential
ImplicitInit(k) == "J_parse"

\* mutant: Dial initialises whether or not the lookup found a Client
AfterLookup_always(ptr, k) == ImplicitInit(k)

\* if c == nil { initialise and look up again }; then c.Dial
AfterLookup(ptr, k) == IF ptr = Nil THEN ImplicitInit(k) ELSE "D_dial"

\* ------------------------------------------------------------------- Init

Init ==
  /\ c = NilMap
  /\ lock = NoLock
  /\ heap = <<>>
  /\ pc = [p \in Procs |-> "idle"]
  /\ op = [p \in Procs |-> "none"]
  /\ key = [p \in Procs |-> ""]
  /\ inst = [p \in Procs |-> ""]
  /\ arg = [p \in Procs |-> <<>>]
  /\ cl = [p \in Procs |-> Nil]
  /\ ret = [p \in Procs |-> [conn |-> NoConn, err |-> NoErr]]
  /\ trace = [p \in Procs |-> <<>>]
  /\ ikey = [p \in Procs |-> ""]
  /\ last = <<>>
  /\ failed = {}
  /\ ops = {}
  /\ calls = 0

\* an event of a call: what it did, whether the caller held the mutex then,
\* and the values involved (a string, a pointer or flag, a result)
Ev(p, tag, a, b, r) == <<tag, lock = p, a, b, r>>

Log(p, evs) == trace' = [trace EXCEPT ![p] = @ \o evs]

\* --------------------------------------------------------- entering a call

Enter(p, k, i, a, first) ==
  /\ calls < MaxCalls
  /\ calls' = calls + 1
  /\ pc' = [pc EXCEPT ![p] = first]
  /\ key' = [key EXCEPT ![p] = k]
  /\ ikey' = [ikey EXCEPT ![p] = k]
  /\ inst' = [inst EXCEPT ![p] = i]
  /\ arg' = [arg EXCEPT ![p] = a]
  /\ cl' = [cl EXCEPT ![p] = Nil]
  /\ ret' = [ret EXCEPT ![p] = [conn |-> NoConn, err |-> NoErr]]
  /\ trace' = [trace EXCEPT ![p] =
                 <<Ev(p, "enter", k, IF k \in failed THEN 1 ELSE 0, <<>>)>>]
  /\ UNCHANGED <<c, lock, heap, last, failed>>

CallDial(p) ==
  /\ pc[p] = "idle"
  /\ op' = [op EXCEPT ![p] = "Dial"]
  /\ \E i \in Instances, k \in Credentials :
       /\ Enter(p, k, i, <<>>, "D_lock1")
       /\ ops' = ops \cup {<<"Dial", k>>}

CallInit(p) ==
  /\ pc[p] = "idle"
  /\ op' = [op EXCEPT ![p] = "Init"]
  /\ \E k \in Credentials :
       /\ Enter(p, k, "", <<"auth">>, "I_lock")
       /\ ops' = ops \cup {<<"Init", k>>}

CallInitClient(p) ==
  /\ pc[p] = "idle"
  /\ op' = [op EXCEPT ![p] = "InitClient"]
  /\ \E k \in Credentials :
       /\ Enter(p, k, "", CustomClient, "C_lock")
       /\ ops' = ops \cup {<<"InitClient", k>>}

CallInitDefault(p) ==
  /\ pc[p] = "idle"
  /\ op' = [op EXCEPT ![p] = "InitDefault"]
  /\ Enter(p, "", "", <<>>, "F_exchange")
  /\ ops' = ops \cup {<<"InitDefault", "">>}

CallInitFromJson(p) ==
  /\ pc[p] = "idle"
  /\ op' = [op EXCEPT ![p] = "InitFromJson"]
  /\ \E k \in Credentials :
       /\ Enter(p, k, "", <<>>, "J_parse")
       /\ ops' = ops \cup {<<"InitFromJson", k>>}

\* ------------------------------------------------------------------- Dial

Dial_Lock1(p) ==
  /\ pc[p] = "D_lock1"
  /\ Lock(p)
  /\ pc' = [pc EXCEPT ![p] = "D_cs1"]
  /\ UNCHANGED <<c, heap, op, key, inst, arg, cl, ret, trace, ikey, last, failed, ops, calls>>

\* lines 46-51: allocate the map if nil, c := dialClient.c[credential_json],
\* unlock, and branch on c == nil
Dial_Lookup1(p) ==
  /\ pc[p] = "D_cs1"
  /\ c' = AfterRead(MakeIfNil(c), key[p])
  /\ cl' = [cl EXCEPT ![p] = Lookup(MakeIfNil(c), key[p])]
  /\ Log(p, (IF MakeIfNil(c) # c THEN <<Ev(p, "alloc", "", Nil, <<>>)>> ELSE <<>>)
            \o <<Ev(p, "lookup", key[p], cl'[p], <<>>)>>)
  /\ Unlock(p)
  /\ pc' = [pc EXCEPT ![p] = AfterLookup(cl'[p], key[p])]
  /\ UNCHANGED <<heap, op, key, inst, arg, ret, ikey, last, failed, ops, calls>>

Dial_Lock2(p) ==
  /\ pc[p] = "D_lock2"
  /\ Lock(p)
  /\ pc' = [pc EXCEPT ![p] = "D_cs2"]
  /\ UNCHANGED <<c, heap, op, key, inst, arg, cl, ret, trace, ikey, last, failed, ops, calls>>

\* lines 57-58: c = dialClient.c[credential_json], then unlock
Dial_Lookup2(p) ==
  /\ pc[p] = "D_cs2"
  /\ c' = AfterRead(c, key[p])
  /\ cl' = [cl EXCEPT ![p] = Lookup(c, key[p])]
  /\ Log(p, <<Ev(p, "lookup", key[p], cl'[p], <<>>)>>)
  /\ Unlock(p)
  /\ pc' = [pc EXCEPT ![p] = "D_dial"]
  /\ UNCHANGED <<heap, op, key, inst, arg, ret, ikey, last, failed, ops, calls>>

\* line 61: return c.Dial(instance); a nil c aborts the goroutine
Dial_Delegate(p) ==
  /\ pc[p] = "D_dial"
  /\ IF cl[p] = Nil
     THEN /\ pc' = [pc EXCEPT ![p] = "panicked"]
          /\ Log(p, <<Ev(p, "panic", "nil Client", Nil, <<>>)>>)
          /\ UNCHANGED ret
     ELSE \E ok \in BOOLEAN :
          LET r == ClientDial(cl[p], inst[p], ok) IN
          /\ ret' = [ret EXCEPT ![p] = DialReturn(r)]
          /\ Log(p, <<Ev(p, "dial", inst[p], cl[p], r)>>)
          /\ pc' = [pc EXCEPT ![p] = "idle"]
  /\ UNCHANGED <<c, lock, heap, op, key, inst, arg, cl, ikey, last, failed, ops, calls>>

\* ---------------------------------------------- InitFromJson / InitDefault

\* lines 108-113; inside Dial a failure returns through line 53
InitFromJson_Parse(p) ==
  /\ pc[p] = "J_parse"
  /\ LET r == JWTConfigFromJSON(key[p]) IN
     /\ Log(p, <<Ev(p, "exchange", "InitFromJson",
                    IF r.err = NoErr THEN 1 ELSE 0, r)>>)
     /\ failed' = IF r.err = NoErr THEN failed ELSE failed \cup {key[p]}
     /\ IF ParseFailed(r)
        THEN /\ ret' = [ret EXCEPT ![p] =
                 [conn |-> NoConn,
                  err |-> IF op[p] = "Dial" THEN Errorf(r.err) ELSE r.err]]
             /\ pc' = [pc EXCEPT ![p] = "idle"]
             /\ UNCHANGED <<arg, ikey>>
        ELSE /\ arg' = [arg EXCEPT ![p] = r.client]
             /\ ikey' = [ikey EXCEPT ![p] = InitFromJsonKey(key[p])]
             /\ pc' = [pc EXCEPT ![p] = "I_lock"]
             /\ UNCHANGED ret
  /\ UNCHANGED <<c, lock, heap, op, key, inst, cl, last, ops, calls>>

\* lines 98-102
InitDefault_Exchange(p) ==
  /\ pc[p] = "F_exchange"
  /\ \E ok \in BOOLEAN :
     LET r == DefaultClient(ok) IN
     /\ Log(p, <<Ev(p, "exchange", "InitDefault",
                    IF r.err = NoErr THEN 1 ELSE 0, r)>>)
     /\ failed' = IF r.err = NoErr THEN failed ELSE failed \cup {key[p]}
     /\ IF r.err # NoErr
        THEN /\ ret' = [ret EXCEPT ![p] = [conn |-> NoConn, err |-> r.err]]
             /\ pc' = [pc EXCEPT ![p] = "idle"]
             /\ UNCHANGED <<arg, ikey>>
        ELSE /\ arg' = [arg EXCEPT ![p] = r.client]
             /\ ikey' = [ikey EXCEPT ![p] = ""]
             /\ pc' = [pc EXCEPT ![p] = "I_lock"]
             /\ UNCHANGED ret
  /\ UNCHANGED <<c, lock, heap, op, key, inst, cl, last, ops, calls>>

\* ------------------------------------------------------------------- Init

Init_Lock(p) ==
  /\ pc[p] = "I_lock"
  /\ Lock(p)
  /\ pc' = [pc EXCEPT ![p] = "I_cs"]
  /\ UNCHANGED <<c, heap, op, key, inst, arg, cl, ret, trace, ikey, last, failed, ops, calls>>

\* lines 75-84: allocate the map if nil, build the Client (which constructs
\* the certificate source), store its address under credential_json, unlock;
\* each event is logged with the mutex as it is when the statement runs
Init_Store(p) ==
  /\ pc[p] = "I_cs"
  /\ LET ptr == Len(heap) + 1 IN
     /\ heap' = Alloc(heap, NewClient(arg[p], Nil, Nil))
     /\ c' = Store(MakeIfNil(c), ikey[p], ptr)
     /\ last' = [x \in (DOMAIN last) \cup {ikey[p]} |->
                   IF x = ikey[p] THEN ptr ELSE last[x]]
     /\ Log(p, (IF MakeIfNil(c) # c THEN <<Ev(p, "alloc", "", Nil, <<>>)>> ELSE <<>>)
               \o <<Ev(p, "cert", "", ptr, <<>>), Ev(p, "store", ikey[p], ptr, <<>>)>>)
  /\ Unlock(p)
  /\ pc' = [pc EXCEPT ![p] = IF op[p] = "Dial" THEN "D_lock2" ELSE "idle"]
  /\ UNCHANGED <<op, key, inst, arg, cl, ret, ikey, failed, ops, calls>>

\* ------------------------------------------------------------- InitClient

InitClient_Lock(p) ==
  /\ pc[p] = "C_lock"
  /\ Lock(p)
  /\ pc' = [pc EXCEPT ![p] = "C_cs"]
  /\ UNCHANGED <<c, heap, op, key, inst, arg, cl, ret, trace, ikey, last, failed, ops, calls>>

\* lines 91-92: dialClient.c[credential_json] = &c, then unlock; an
\* assignment to an entry of a nil map aborts the goroutine before the
\* unlock, with the mutex still locked
InitClient_Store(p) ==
  /\ pc[p] = "C_cs"
  /\ IF ~c.alloc
     THEN /\ pc' = [pc EXCEPT ![p] = "panicked"]
          /\ Log(p, <<Ev(p, "panic", "assignment to entry in nil map", Nil, <<>>)>>)
          /\ UNCHANGED <<c, heap, last, lock>>
     ELSE LET ptr == Len(heap) + 1 IN
          /\ heap' = Alloc(heap, arg[p])
          /\ c' = Store(c, ikey[p], ptr)
          /\ last' = [x \in (DOMAIN last) \cup {ikey[p]} |->
                        IF x = ikey[p] THEN ptr ELSE last[x]]
          /\ Log(p, <<Ev(p, "store", ikey[p], ptr, <<>>)>>)
          /\ Unlock(p)
          /\ pc' = [pc EXCEPT ![p] = "idle"]
  /\ UNCHANGED <<op, key, inst, arg, cl, ret, ikey, failed, ops, calls>>

\* ------------------------------------------------------------------- Next

Next ==
  \E p \in Procs :
    \/ CallDial(p)
    \/ CallInit(p)
    \/ CallInitClient(p)
    \/ CallInitDefault(p)
    \/ CallInitFromJson(p)
    \/ Dial_Lock1(p)
    \/ Dial_Lookup1(p)
    \/ Dial_Lock2(p)
    \/ Dial_Lookup2(p)
    \/ Dial_Delegate(p)
    \/ InitFromJson_Parse(p)
    \/ InitDefault_Exchange(p)
    \/ Init_Lock(p)
    \/ Init_Store(p)
    \/ InitClient_Lock(p)
    \/ InitClient_Store(p)

Spec == Init /\ [][Next]_vars

\* the steps of a call in progress: a goroutine that is running keeps running,
\* a collaborator call returns, and a goroutine waiting in Lock gets the mutex
\* if it is free again and again
Run(p) ==
  \/ Dial_Lookup1(p) \/ Dial_Lookup2(p) \/ Dial_Delegate(p)
  \/ InitFromJson_Parse(p) \/ InitDefault_Exchange(p)
  \/ Init_Store(p) \/ InitClient_Store(p)

Acquire(p) == Dial_Lock1(p) \/ Dial_Lock2(p) \/ Init_Lock(p) \/ InitClient_Lock(p)

FairSpec ==
  /\ Spec
  /\ \A p \in Procs : WF_vars(Run(p)) /\ SF_vars(Acquire(p))

\* ------------------------------------------------------ reading the traces

\* the events of p's current (or last) call carrying the given tag, in order
EvsOf(p, tag) == SelectSeq(trace[p], LAMBDA e : e[1] = tag)

\* p's call has ended by returning
Returned(p) == pc[p] = "idle" /\ op[p] # "none"

\* p is between a Lock and the matching Unlock
InCS(p) == pc[p] \in {"D_cs1", "D_cs2", "I_cs", "C_cs"}

TypeOK ==
  /\ c.alloc \in BOOLEAN
  /\ lock \in {NoLock} \cup Procs
  /\ calls \in 0..MaxCalls
  /\ \A p \in Procs : cl[p] \in 0..Len(heap)

\* ------------------------------------------------------------------ claims

\* C1: a Dial that misses uses InitDefault when its credential is empty and
\* InitFromJson otherwise, and installs the result under its own credential.
C1_DefaultCredentialRouting ==
  \A p \in Procs : op[p] = "Dial" =>
    \A i \in DOMAIN trace[p] :
      LET e == trace[p][i] IN
      /\ e[1] = "exchange" =>
           e[3] = (IF key[p] = "" THEN "InitDefault" ELSE "InitFromJson")
      /\ e[1] = "store" => e[3] = key[p]

\* C2: InitClient succeeds from every state, the first call included: it
\* never aborts, and once past its store the credential is present in the map.
C2_InitClientAlwaysSucceeds ==
  \A p \in Procs : op[p] = "InitClient" =>
    /\ pc[p] # "panicked"
    /\ pc[p] = "idle" => key[p] \in DOMAIN c.ent

\* C3: a credential under which a Client was installed stays present, the map
\* holds the Client most recently installed under it, and every lookup of it
\* finds that Client.
C3_CacheConsistency ==
  [][\A k \in DOMAIN last :
       /\ k \in DOMAIN c'.ent
       /\ c'.ent[k] = last'[k]
       /\ \A p \in Procs :
            (pc[p] \in {"D_cs1", "D_cs2"} /\ pc'[p] # pc[p] /\ key[p] = k)
              => (cl'[p] = last[k] /\ cl'[p] # Nil)]_vars

\* C3 witness: the Client a Dial installed under its credential was
\* overwritten by a concurrent Init before the Dial's second lookup, which
\* found the second Client.
C3_Witness ==
  \E p \in Procs :
    /\ op[p] = "Dial" /\ pc[p] = "D_dial"
    /\ <<"Init", key[p]>> \in ops
    /\ Len(EvsOf(p, "store")) = 1
    /\ EvsOf(p, "store")[1][4] = 1
    /\ last[key[p]] = 2
    /\ cl[p] = 2

\* a finished Dial whose first lookup missed has performed exactly one exchange
MissedThenExchanged(p) ==
  (op[p] = "Dial" /\ pc[p] \in {"idle", "panicked"}
     /\ EvsOf(p, "lookup")[1][4] = Nil)
    => Len(EvsOf(p, "exchange")) = 1

\* C4: a failed identity exchange leaves the registry as it was and ends the
\* call with an error; and a Dial whose lookup misses always performs an
\* exchange of its own, whatever failed before.
C4_NoFailureCaching ==
  [][\A p \in Procs :
       /\ (pc[p] \in {"J_parse", "F_exchange"} /\ pc'[p] # pc[p]
             /\ trace'[p][Len(trace'[p])][4] = 0)
            => (c' = c /\ pc'[p] = "idle" /\ ret'[p].err # NoErr)
       /\ \A i \in DOMAIN trace'[p] :
            (trace'[p][i][1] = "exchange" /\ trace'[p][i][4] = 0)
              => i = Len(trace'[p])
       /\ MissedThenExchanged(p)']_vars

\* C4 witness: a Dial entered after the exchange for its credential had
\* already failed has missed and performed the exchange again.
C4_Witness ==
  \E p \in Procs :
    /\ op[p] = "Dial" /\ Returned(p)
    /\ trace[p][1][4] = 1
    /\ key[p] \notin DOMAIN c.ent
    /\ Len(EvsOf(p, "exchange")) = 1

\* C5: when the only calls made are Dial calls with one credential whose
\* exchange succeeds, then once they have all ended the registry holds exactly
\* one entry, under that credential, and it is a Client built by one of them.
C5_ConcurrentSameKeyDial ==
  \A k \in ValidBlobs :
    (ops = {<<"Dial", k>>} /\ \A p \in Procs : pc[p] \in {"idle", "panicked"})
      => /\ DOMAIN c.ent = {k}
         /\ c.ent[k] \in 1..Len(heap)
         /\ Len(heap) <= calls
         /\ heap[c.ent[k]] = NewClient(JWTConfigFromJSON(k).client, Nil, Nil)

\* C5 witness: two Dial calls with the same credential have both missed, both
\* built a Client, and both ended.
C5_Witness ==
  \E k \in ValidBlobs :
    /\ ops = {<<"Dial", k>>}
    /\ \A p \in Procs : pc[p] = "idle"
    /\ \E p, q \in Procs :
         /\ p # q
         /\ Returned(p) /\ Len(EvsOf(p, "store")) = 1
         /\ Returned(q) /\ Len(EvsOf(q, "store")) = 1
    /\ Len(heap) = 2

\* C6: a Dial whose first lookup finds a Client performs no exchange, writes
\* nothing to the registry, looks up once, and delegates to the Client it
\* found with the instance it was given, returning that result.
C6_CacheHitSkipsInit ==
  \A p \in Procs :
    (op[p] = "Dial" /\ Len(EvsOf(p, "lookup")) >= 1
       /\ EvsOf(p, "lookup")[1][4] # Nil)
      => LET found == EvsOf(p, "lookup")[1][4]
             d == EvsOf(p, "dial")
         IN /\ Len(EvsOf(p, "exchange")) = 0
            /\ Len(EvsOf(p, "store")) = 0
            /\ Len(EvsOf(p, "alloc")) = 0
            /\ Len(EvsOf(p, "cert")) = 0
            /\ Len(EvsOf(p, "lookup")) = 1
            /\ pc[p] \in {"D_dial", "idle"}
            /\ cl[p] = found
            /\ pc[p] = "idle" =>
                 /\ Len(d) = 1
                 /\ d[1][3] = inst[p]
                 /\ d[1][4] = found
                 /\ ret[p] = d[1][5]
                 /\ ret[p] \in {ClientDial(found, inst[p], TRUE),
                                ClientDial(found, inst[p], FALSE)}

\* C6 witness: after Init installed a Client under a credential, a Dial with
\* that credential hit and obtained a connection from that Client.
C6_Witness ==
  \E p \in Procs :
    /\ op[p] = "Dial" /\ Returned(p)
    /\ <<"Init", key[p]>> \in ops
    /\ Len(EvsOf(p, "exchange")) = 0
    /\ cl[p] # Nil
    /\ heap[cl[p]] = NewClient(<<"auth">>, Nil, Nil)
    /\ ret[p].conn = <<"conn", cl[p], inst[p]>>

\* C7: a Dial whose implicit initialisation failed has returned the wrapped
\* initialisation error and no connection, has not delegated to any Client
\* and has stored nothing in the registry.
C7_ImplicitInitFailure ==
  \A p \in Procs :
    \A i \in DOMAIN trace[p] :
      (op[p] = "Dial" /\ trace[p][i][1] = "exchange" /\ trace[p][i][4] = 0)
        => /\ pc[p] = "idle"
           /\ ret[p].conn = NoConn
           /\ ret[p].err = <<"default proxy initialization failed">>
                             \o trace[p][i][5].err
           /\ trace[p][i][5].err # NoErr
           /\ Len(EvsOf(p, "dial")) = 0
           /\ Len(EvsOf(p, "store")) = 0
           /\ Len(EvsOf(p, "cert")) = 0

\* C7 witness: a Dial with a malformed credential has returned the wrapped
\* parse error.
C7_Witness ==
  \E p \in Procs :
    /\ op[p] = "Dial" /\ Returned(p)
    /\ key[p] = "bad"
    /\ ret[p].err = <<"default proxy initialization failed", "json", "bad">>

\* what a Dial that delegated has done: one delegated dial, on the Client it
\* resolved and the instance it was given, whose result it returned
DelegatedOnce(p) ==
  LET d == EvsOf(p, "dial") IN
  /\ Len(d) = 1
  /\ d[1][3] = inst[p]
  /\ d[1][4] = cl[p]
  /\ d[1][5] \in {ClientDial(cl[p], inst[p], TRUE), ClientDial(cl[p], inst[p], FALSE)}
  /\ ret[p] = d[1][5]

\* C8: the step of Dial that delegates to a resolved Client ends the call,
\* dials exactly once, returns the Client's result as it is, and leaves the
\* registry as it was, whether the delegated dial succeeded or failed.
C8_DelegatedDialUnchanged ==
  [][\A p \in Procs :
       (pc[p] = "D_dial" /\ cl[p] # Nil /\ pc'[p] # pc[p])
         => /\ pc'[p] = "idle"
            /\ c' = c
            /\ DelegatedOnce(p)']_vars

\* C8 witness: a delegated dial failed; Dial returned the Client's own error
\* and the registry still maps the credential to that Client.
C8_Witness ==
  \E p \in Procs :
    /\ op[p] = "Dial" /\ Returned(p)
    /\ cl[p] # Nil
    /\ ret[p].err = <<"dial", cl[p], inst[p]>>
    /\ key[p] \in DOMAIN c.ent
    /\ c.ent[key[p]] = cl[p]

\* C9: at most one goroutine is between a Lock and its Unlock, it is the one
\* holding the mutex, and every allocation, read and write of the map was
\* made by a goroutine holding the mutex.
C9_LockDiscipline ==
  /\ Cardinality({p \in Procs : InCS(p)}) <= 1
  /\ \A p \in Procs : InCS(p) => lock = p
  /\ \A p \in Procs : \A i \in DOMAIN trace[p] :
       trace[p][i][1] \in {"alloc", "lookup", "store"} => trace[p][i][2]

\* C9 witness: one goroutine is inside Init's critical section while another
\* waits to lock for its lookup.
C9_Witness ==
  \E p, q \in Procs :
    /\ pc[p] = "I_cs" /\ lock = p
    /\ pc[q] = "D_lock1"

\* C10 as stated: no collaborator call (identity exchange, certificate-source
\* construction, delegated dial) is made while the caller holds the mutex.
C10_NoCollaboratorUnderLock ==
  \A p \in Procs : \A i \in DOMAIN trace[p] :
    trace[p][i][1] \in {"exchange", "cert", "dial"} => ~trace[p][i][2]

\* C10 amended: the identity exchange and the delegated dial are made without
\* the mutex, but Init constructs the certificate source while holding it,
\* inside the critical section that also allocates the map and stores the
\* Client.
C10_CertSourceUnderLock ==
  \A p \in Procs : \A i \in DOMAIN trace[p] :
    /\ trace[p][i][1] \in {"exchange", "dial"} => ~trace[p][i][2]
    /\ trace[p][i][1] = "cert" =>
         /\ trace[p][i][2]
         /\ i < Len(trace[p])
         /\ trace[p][i + 1][1] = "store"
         /\ trace[p][i + 1][2]
         /\ trace[p][i + 1][4] = trace[p][i][4]

\* C10 witness: Init has built the certificate source and stored the Client
\* in the critical section another goroutine was waiting to enter.
C10_Witness ==
  \E p, q \in Procs :
    /\ op[p] = "Init" /\ Returned(p)
    /\ Len(EvsOf(p, "cert")) = 1
    /\ EvsOf(p, "cert")[1][2]
    /\ pc[q] \in {"D_lock1", "D_lock2", "I_lock", "C_lock"}

\* the places where a goroutine is inside a collaborator call that may block:
\* the identity exchange of either initialiser and the delegated dial
InCollaborator(p) == pc[p] \in {"J_parse", "F_exchange", "D_dial"}

\* C11: the identity exchange and the delegated dial run only where the caller
\* does not hold the mutex: a goroutine inside one of them is never the
\* holder, so while it hangs the mutex is free or held by another goroutine
\* that is inside a critical section; and every exchange and dial that
\* finished was made without the mutex.
C11_BlockingCallsOutsideLock ==
  /\ \A p \in Procs : InCollaborator(p) =>
       /\ lock # p
       /\ lock # NoLock => (lock \in Procs \ {p} /\ ~InCollaborator(lock))
  /\ \A p \in Procs : \A i \in DOMAIN trace[p] :
       trace[p][i][1] \in {"exchange", "dial"} => ~trace[p][i][2]

\* C11 witness: one goroutine is inside its delegated dial, another inside an
\* identity exchange, and neither holds the mutex.
C11_Witness ==
  \E p, q \in Procs :
    /\ pc[p] = "D_dial" /\ cl[p] # Nil
    /\ pc[q] \in {"J_parse", "F_exchange"}
    /\ lock = NoLock

\* C12: a lookup reports not-found for a credential that is not installed,
\* never aborts and adds no key: the key set of the map is the same before and
\* after each lookup of Dial, also when the lookup is the first operation and
\* allocates the map.
C12_LookupAddsNoKey ==
  [][\A p \in Procs :
       (pc[p] \in {"D_cs1", "D_cs2"} /\ pc'[p] # pc[p]) =>
         /\ DOMAIN c'.ent = DOMAIN c.ent
         /\ \A k \in DOMAIN c.ent : c'.ent[k] = c.ent[k]
         /\ c'.alloc
         /\ pc'[p] # "panicked"
         /\ key[p] \notin DOMAIN c.ent => cl'[p] = Nil
         /\ key[p] \in DOMAIN c.ent => cl'[p] = c.ent[key[p]]
         /\ trace'[p][Len(trace'[p])] = <<"lookup", TRUE, key[p], cl'[p], <<>> >>]_vars

\* C12 witness: Dial was the first operation, its lookup allocated the map,
\* found nothing and left the map empty.
C12_Witness ==
  \E p \in Procs :
    /\ calls = 1 /\ op[p] = "Dial" /\ pc[p] = "J_parse"
    /\ Len(EvsOf(p, "alloc")) = 1
    /\ EvsOf(p, "lookup")[1][4] = Nil
    /\ c.alloc /\ DOMAIN c.ent = {}

\* C13 as stated: under fair scheduling every Dial call that has started
\* eventually returns, whatever the other goroutines call; no caller waits
\* for the mutex forever.
C13_DialCompletes ==
  \A p \in Procs : (op[p] = "Dial" /\ pc[p] # "idle") ~> (pc[p] = "idle")

\* goroutine p runs or has run Dial(.., k), missed, exchanged and inserted
DialInserted(p, k) ==
  /\ op[p] = "Dial" /\ key[p] = k
  /\ EvsOf(p, "lookup") # <<>> /\ EvsOf(p, "lookup")[1][4] = Nil
  /\ Len(EvsOf(p, "exchange")) = 1
  /\ Len(EvsOf(p, "store")) = 1

\* C14: when two concurrent Dial calls with the same credential both missed,
\* both exchanged and both inserted, and nothing else was called, the two
\* inserts made two different Clients, the map holds the one inserted last,
\* and each Dial delegates to a Client one of the callers constructed for
\* that credential, never to one older than its own.
C14_DuplicateInitLastWriterWins ==
  \A p, q \in Procs : \A k \in Credentials :
    (p # q /\ DialInserted(p, k) /\ DialInserted(q, k) /\ ops = {<<"Dial", k>>}) =>
      LET sp == EvsOf(p, "store")[1][4]
          sq == EvsOf(q, "store")[1][4]
      IN  /\ sp # sq
          /\ EvsOf(p, "store")[1][3] = k
          /\ c.ent[k] = Len(heap)
          /\ c.ent[k] = last[k]
          /\ c.ent[k] >= sp /\ c.ent[k] >= sq
          /\ calls = 2 => c.ent[k] \in {sp, sq}
          /\ \A i \in 1..Len(heap) : heap[i] = NewClient(JWTConfigFromJSON(k).client, Nil, Nil)
          /\ \A r \in {p, q} : \A i \in DOMAIN trace[r] :
               trace[r][i][1] = "dial" =>
                 /\ trace[r][i][4] \in 1..Len(heap)
                 /\ trace[r][i][4] >= EvsOf(r, "store")[1][4]
                 /\ calls = 2 => trace[r][i][4] \in {sp, sq}

\* C14 witness: two Dial calls with one credential both missed, both
\* exchanged and both inserted; the first to insert dialled through the
\* Client the second one inserted.
C14_Witness ==
  \E p, q \in Procs :
    /\ p # q /\ DialInserted(p, "k1") /\ DialInserted(q, "k1")
    /\ Returned(p) /\ Returned(q)
    /\ EvsOf(p, "store")[1][4] = 1 /\ EvsOf(q, "store")[1][4] = 2
    /\ EvsOf(p, "dial")[1][4] = 2 /\ EvsOf(q, "dial")[1][4] = 2
    /\ c.ent["k1"] = 2

\* C15: one Dial call makes at most one identity exchange: none once its
\* first lookup hit, exactly one once its first lookup missed and the call
\* went on, and a failed exchange is the last thing the call does.
C15_AtMostOneExchange ==
  \A p \in Procs : op[p] = "Dial" =>
    LET ex == EvsOf(p, "exchange")
        lk == EvsOf(p, "lookup")
    IN  /\ Len(ex) <= 1
        /\ lk = <<>> => ex = <<>>
        /\ (lk # <<>> /\ lk[1][4] # Nil) => ex = <<>>
        /\ (lk # <<>> /\ lk[1][4] = Nil /\ pc[p] # "J_parse") => Len(ex) = 1
        /\ (ex # <<>> /\ ex[1][4] = 0) =>
             /\ pc[p] = "idle"
             /\ trace[p][Len(trace[p])] = ex[1]
             /\ Len(lk) = 1

\* C15 witness: one Dial missed, made its one exchange, which failed, and
\* returned; another missed, made its one exchange and dialled.
C15_Witness ==
  \E p, q \in Procs :
    /\ op[p] = "Dial" /\ Returned(p)
    /\ Len(EvsOf(p, "exchange")) = 1 /\ EvsOf(p, "exchange")[1][4] = 0
    /\ ret[p].err # NoErr
    /\ op[q] = "Dial" /\ Returned(q)
    /\ Len(EvsOf(q, "exchange")) = 1 /\ EvsOf(q, "exchange")[1][4] = 1
    /\ Len(EvsOf(q, "dial")) = 1

\* the key an initialisation writes: the empty credential for InitDefault,
\* the credential it was given for the others
TargetKey(p) == IF op[p] = "InitDefault" THEN "" ELSE key[p]

\* C16: each initialisation writes exactly one key and leaves every other
\* entry as it was: InitDefault writes under the empty credential, Init,
\* InitFromJson and InitClient under the credential they were given; an
\* InitDefault or InitFromJson whose identity exchange fails returns the
\* collaborator's error as it got it and writes nothing.
C16_InitWritesOneKey ==
  [][\A p \in Procs :
       /\ (/\ op[p] \in {"Init", "InitDefault", "InitFromJson", "InitClient"}
           /\ pc[p] \in {"I_cs", "C_cs"} /\ pc'[p] = "idle") =>
            /\ DOMAIN c'.ent = (DOMAIN c.ent) \cup {TargetKey(p)}
            /\ \A k \in (DOMAIN c.ent) \ {TargetKey(p)} : c'.ent[k] = c.ent[k]
            /\ c'.ent[TargetKey(p)] = Len(heap')
            /\ Len(heap') = Len(heap) + 1
       /\ (/\ op[p] \in {"InitDefault", "InitFromJson"}
           /\ pc[p] \in {"F_exchange", "J_parse"} /\ pc'[p] = "idle") =>
            /\ c' = c /\ heap' = heap
            /\ ret'[p].conn = NoConn
            /\ ret'[p].err # NoErr
            /\ ret'[p].err = trace'[p][Len(trace'[p])][5].err
            /\ op[p] = "InitFromJson" => ret'[p].err = JWTConfigFromJSON(key[p]).err
            /\ \A i \in DOMAIN trace'[p] : trace'[p][i][1] # "store"]_vars

\* C16 witness: an InitFromJson failed with the parser's error and wrote
\* nothing; an InitDefault succeeded and the map holds the empty credential
\* only.
C16_Witness ==
  \E p, q \in Procs :
    /\ op[q] = "InitFromJson" /\ Returned(q)
    /\ ret[q].err = <<"json", "bad">>
    /\ op[p] = "InitDefault" /\ Returned(p)
    /\ Len(EvsOf(p, "store")) = 1 /\ EvsOf(p, "store")[1][3] = ""
    /\ DOMAIN c.ent = {""}

\* C17: installing a Client, first or overwriting, never changes a Client
\* installed before: the objects on the heap keep their attributes; and a
\* Dial delegates to the Client its last lookup resolved, even when the slot
\* has been overwritten since.
C17_InstalledClientImmutable ==
  [][/\ Len(heap') >= Len(heap)
     /\ \A i \in 1..Len(heap) : heap'[i] = heap[i]
     /\ \A p \in Procs :
          (pc[p] = "D_dial" /\ pc'[p] = "idle") =>
            LET d  == trace'[p][Len(trace'[p])]
                lk == EvsOf(p, "lookup")
            IN  /\ d[1] = "dial"
                /\ d[4] = lk[Len(lk)][4]
                /\ d[4] = cl[p]
                /\ d[4] \in 1..Len(heap)
                /\ ret'[p] = ClientDial(d[4], inst[p], ret'[p].err = NoErr)]_vars

\* C17 witness: a Dial resolved Client 1 and dialled through it; an
\* InitClient replaced the slot with a different Client 2; Client 1 is still
\* the one Init built.
C17_Witness ==
  \E p, q \in Procs :
    /\ op[p] = "Dial" /\ Returned(p) /\ key[p] = "k1"
    /\ Len(EvsOf(p, "dial")) = 1 /\ EvsOf(p, "dial")[1][4] = 1
    /\ op[q] = "InitClient" /\ Returned(q) /\ key[q] = "k1"
    /\ c.ent["k1"] = 2
    /\ heap[2] = CustomClient
    /\ heap[1] = NewClient(JWTConfigFromJSON("k1").client, Nil, Nil)

\* C18: the map is allocated at most once: once allocated it stays allocated
\* and no key is ever lost, and an allocation happens only while the map is
\* nil, inside Dial or Init.
C18_MapAllocatedOnce ==
  [][/\ c.alloc => (c'.alloc /\ (DOMAIN c.ent) \subseteq (DOMAIN c'.ent))
     /\ \A p \in Procs :
          (pc'[p] # pc[p] /\ pc[p] # "idle"
             /\ Len(SelectSeq(trace'[p], LAMBDA e : e[1] = "alloc"))
                  > Len(EvsOf(p, "alloc"))) =>
            /\ ~c.alloc /\ c'.alloc
            /\ pc[p] \in {"D_cs1", "I_cs"}
            /\ \A q \in Procs \ {p} : EvsOf(q, "alloc") = <<>>]_vars

\* C18 witness: the map was allocated by an earlier call; a later Init went
\* through the nil check without allocating and the map holds both entries.
C18_Witness ==
  \E p, q \in Procs :
    /\ op[p] = "Init" /\ Returned(p)
    /\ EvsOf(p, "alloc") = <<>> /\ Len(EvsOf(p, "store")) = 1
    /\ Len(EvsOf(q, "alloc")) = 1
    /\ Cardinality(DOMAIN c.ent) = 2

\* C19: Dial never delegates to a nil Client: every value in the map is the
\* address of a Client on the heap, a Dial at its delegated dial holds a
\* non-nil Client and never panics, and the second lookup of a Dial that
\* initialised finds an entry no older than the one it inserted.
C19_NoNilDelegation ==
  /\ \A k \in DOMAIN c.ent : c.ent[k] # Nil /\ c.ent[k] \in 1..Len(heap)
  /\ \A p \in Procs : op[p] = "Dial" =>
       LET lk == EvsOf(p, "lookup")
           st == EvsOf(p, "store")
       IN  /\ pc[p] # "panicked"
           /\ pc[p] = "D_dial" => cl[p] # Nil
           /\ \A i \in DOMAIN st : st[i][4] # Nil
           /\ Len(lk) = 2 =>
                /\ Len(st) = 1
                /\ lk[2][4] # Nil
                /\ lk[2][4] >= st[1][4]
           /\ \A i \in DOMAIN trace[p] :
                trace[p][i][1] = "dial" => trace[p][i][4] # Nil

\* C19 witness: a Dial missed, initialised, found its entry at the second
\* lookup and dialled through it.
C19_Witness ==
  \E p \in Procs :
    /\ op[p] = "Dial" /\ Returned(p)
    /\ Len(EvsOf(p, "lookup")) = 2
    /\ EvsOf(p, "lookup")[1][4] = Nil
    /\ EvsOf(p, "lookup")[2][4] # Nil
    /\ Len(EvsOf(p, "dial")) = 1
    /\ EvsOf(p, "dial")[1][4] = EvsOf(p, "lookup")[2][4]

\* C20 as stated: an operation that has ended, by returning or by failing,
\* does not hold the mutex; InitClient called before the map is allocated
\* included.
C20_LockReleasedAtEnd ==
  \A p \in Procs : pc[p] \in {"idle", "panicked"} => lock # p
====
